---------------------------- MODULE Spec2Model ----------------------------
(***************************************************************************)
(* Model of the Lutron Caseta MCP server (src/server.py): the process-wide *)
(* bridge session (get_bridge), the entity resolvers (find_device,         *)
(* find_scene) and the tool dispatcher (call_tool), together with the      *)
(* files the pairing utility (src/pair_bridge.py) leaves on disk.          *)
(*                                                                         *)
(* Text is modelled as a sequence of one-character ASCII strings, so that  *)
(* lower-casing, stripping, equality and substring search are computed     *)
(* character by character as Python computes them.                         *)
(***************************************************************************)
EXTENDS Integers, Sequences, FiniteSets, TLC

VARIABLES
    bridge,      \* server.py:37  the global `bridge`: 0 is None, n > 0 the n-th handle created
    healthy,     \* what bridge.is_connected() answers for the stored handle
    BRIDGE_IP,   \* server.py:34  the global BRIDGE_IP
    envIP,       \* the value of LUTRON_BRIDGE_IP when the module was loaded
    ipFile,      \* CERT_DIR/bridge_ip.txt: <<>> when absent, <<content>> when present
    certFiles,   \* the credential files present in CERT_DIR
    reuse,       \* history of the stored handle: whether its handshake succeeded, and
                 \* the run of invocations it has served since
    rin,         \* resolver run: the snapshot and search string given
    rout,        \* resolver run: what find_device and find_scene returned
    attempt,     \* what the address sources, the credentials and the hub were when the
                 \* most recent invocation started
    conns,       \* conns[h] is the state of the connection of the h-th handle created:
                 \* "pending", "up", "failed" or "down"
    tasks        \* tasks[t] is the record of the invocation of caller t that is in
                 \* flight, or of its last one

vars == <<bridge, healthy, BRIDGE_IP, envIP, ipFile, certFiles, reuse, rin, rout,
          attempt, conns, tasks>>

sessionVars == <<bridge, healthy, BRIDGE_IP, envIP, ipFile, certFiles, reuse, attempt, conns, tasks>>

resolverVars == <<rin, rout>>

----------------------------------------------------------------------------
(* Bounds of the model *)

\* Handles the process may create before the model stops creating more.
MaxHandles == 2

\* Length at which the count of calls in a reuse run saturates.
MaxStreak == 2

\* Largest number of entries in a snapshot handed to the resolvers.
MaxEntries == 2

\* Invocations that may be in flight together in the interleaved run.
MaxCallers == 2

----------------------------------------------------------------------------
(* Text *)

\* The capital letters of the ASCII alphabet and their lower-case forms.
UpperCase ==
    <<"A", "B", "C", "D", "E", "F", "G", "H", "I", "J", "K", "L", "M", "N",
      "O", "P", "Q", "R", "S", "T", "U", "V", "W", "X", "Y", "Z">>

LowerCase ==
    <<"a", "b", "c", "d", "e", "f", "g", "h", "i", "j", "k", "l", "m", "n",
      "o", "p", "q", "r", "s", "t", "u", "v", "w", "x", "y", "z">>

ToLower == [c \in {UpperCase[i] : i \in 1..Len(UpperCase)} |->
               LowerCase[CHOOSE i \in 1..Len(UpperCase) : UpperCase[i] = c]]

\* str.lower() on one character of the ASCII alphabet.
LowerChar(c) == IF c \in DOMAIN ToLower THEN ToLower[c] ELSE c

\* str.lower()
Lower(s) == [i \in 1..Len(s) |-> LowerChar(s[i])]

\* `needle in hay` for Python strings: some window of hay equals needle.
Contains(needle, hay) ==
    \E i \in 0..(Len(hay) - Len(needle)) :
        SubSeq(hay, i + 1, i + Len(needle)) = needle

\* The ASCII characters str.strip() removes: space, \t, \n, \r, \f, the
\* vertical tab and the separators 0x1c to 0x1f.
IsSpace(c) == c \in {" ", "\t", "\n", "\r", "\f", "", "", "", "", ""}

RECURSIVE LStrip(_)
LStrip(s) == IF s # <<>> /\ IsSpace(Head(s)) THEN LStrip(Tail(s)) ELSE s

RECURSIVE RStrip(_)
RStrip(s) ==
    IF s # <<>> /\ IsSpace(s[Len(s)]) THEN RStrip(SubSeq(s, 1, Len(s) - 1)) ELSE s

\* str.strip()
Strip(s) == RStrip(LStrip(s))

----------------------------------------------------------------------------
(* Snapshots: a Python dict in insertion order is a sequence of            *)
(* [id, rec] entries with distinct ids.  A record is a dict whose keys     *)
(* may be absent: `has` is the set of keys present.                        *)

\* dict.get(key, default) for the "name" key
GetName(rec, default) == IF "name" \in rec.has THEN rec.name ELSE default

\* dict.get("type"): None when the key is absent
GetType(rec) == IF "type" \in rec.has THEN rec.type ELSE "None"

\* `search in devices`
HasKey(snapshot, search) == \E i \in 1..Len(snapshot) : snapshot[i].id = search

\* devices[search]
Lookup(snapshot, search) ==
    snapshot[CHOOSE i \in 1..Len(snapshot) : snapshot[i].id = search].rec

\* The position a `for` loop over the entries stops at: the first entry, in
\* insertion order, whose test is TRUE; 0 when the loop runs to its end.
FirstIndex_Last(matches) ==
    IF \E i \in 1..Len(matches) : matches[i]
    THEN CHOOSE i \in 1..Len(matches) :
            /\ matches[i]
            /\ \A j \in (i + 1)..Len(matches) : ~matches[j]
    ELSE 0

FirstIndex(matches) ==
    IF \E i \in 1..Len(matches) : matches[i]
    THEN CHOOSE i \in 1..Len(matches) :
            /\ matches[i]
            /\ \A j \in 1..(i - 1) : ~matches[j]
    ELSE 0

NotFound == [found |-> FALSE, id |-> <<>>, rec |-> [has |-> {}, name |-> <<>>, type |-> ""]]

Found(id, rec) == [found |-> TRUE, id |-> id, rec |-> rec]

\* device.get("name", "").lower() == search_lower
NameEquals(search_lower, entry) == Lower(GetName(entry.rec, <<>>)) = search_lower

\* the operands of `in` exchanged: the name is looked for in the search string
NameContains_Reversed(search_lower, entry) ==
    Contains(Lower(GetName(entry.rec, <<>>)), search_lower)

\* search_lower in device.get("name", "").lower()
NameContains(search_lower, entry) == Contains(search_lower, Lower(GetName(entry.rec, <<>>)))

\* find_device with the name match tried before the id match
find_device_NameFirst(devices, search) ==
    LET search_lower == Lower(search)
        i2 == FirstIndex([i \in 1..Len(devices) |-> NameEquals(search_lower, devices[i])])
        i3 == FirstIndex([i \in 1..Len(devices) |-> NameContains(search_lower, devices[i])])
    IN  IF i2 # 0 THEN Found(devices[i2].id, devices[i2].rec)
        ELSE IF HasKey(devices, search) THEN Found(search, Lookup(devices, search))
        ELSE IF i3 # 0 THEN Found(devices[i3].id, devices[i3].rec)
        ELSE NotFound

\* find_device falling back to the first entry instead of returning None
find_device_Fallback(devices, search) ==
    LET search_lower == Lower(search)
        i2 == FirstIndex([i \in 1..Len(devices) |-> NameEquals(search_lower, devices[i])])
        i3 == FirstIndex([i \in 1..Len(devices) |-> NameContains(search_lower, devices[i])])
    IN  IF HasKey(devices, search) THEN Found(search, Lookup(devices, search))
        ELSE IF i2 # 0 THEN Found(devices[i2].id, devices[i2].rec)
        ELSE IF i3 # 0 THEN Found(devices[i3].id, devices[i3].rec)
        ELSE IF devices # <<>> THEN Found(devices[1].id, devices[1].rec)
        ELSE NotFound

\* server.py find_device
find_device(devices, search) ==
    LET search_lower == Lower(search)
        i2 == FirstIndex([i \in 1..Len(devices) |-> NameEquals(search_lower, devices[i])])
        i3 == FirstIndex([i \in 1..Len(devices) |-> NameContains(search_lower, devices[i])])
    IN  IF HasKey(devices, search) THEN Found(search, Lookup(devices, search))
        ELSE IF i2 # 0 THEN Found(devices[i2].id, devices[i2].rec)
        ELSE IF i3 # 0 THEN Found(devices[i3].id, devices[i3].rec)
        ELSE NotFound

\* find_scene without its partial-match loop
find_scene_NoPartial(scenes, search) ==
    LET search_lower == Lower(search)
        i2 == FirstIndex([i \in 1..Len(scenes) |-> NameEquals(search_lower, scenes[i])])
    IN  IF HasKey(scenes, search) THEN Found(search, Lookup(scenes, search))
        ELSE IF i2 # 0 THEN Found(scenes[i2].id, scenes[i2].rec)
        ELSE NotFound

\* server.py find_scene
find_scene(scenes, search) ==
    LET search_lower == Lower(search)
        i2 == FirstIndex([i \in 1..Len(scenes) |-> NameEquals(search_lower, scenes[i])])
        i3 == FirstIndex([i \in 1..Len(scenes) |-> NameContains(search_lower, scenes[i])])
    IN  IF HasKey(scenes, search) THEN Found(search, Lookup(scenes, search))
        ELSE IF i2 # 0 THEN Found(scenes[i2].id, scenes[i2].rec)
        ELSE IF i3 # 0 THEN Found(scenes[i3].id, scenes[i3].rec)
        ELSE NotFound

----------------------------------------------------------------------------
(* Configuration and the bridge session *)

None == 0

CertNames == {"caseta.crt", "caseta.key", "caseta-bridge.crt"}

MsgNoIP ==
    "Bridge IP not configured. Set LUTRON_BRIDGE_IP environment variable or run pair_bridge.py first."

MsgNoCerts == "Certificates not found in <CERT_DIR>. Run pair_bridge.py first."

MsgConnect == "<exception raised by Smartbridge.connect>"

\* server.py:48-52  the address after the optional read of bridge_ip.txt
LoadBridgeIP(ip, file) ==
    IF ip = <<>>
    THEN IF file # <<>> THEN Strip(file[1]) ELSE ip
    ELSE ip

\* any() in place of all(): one credential file is enough
CertsPresent_Any(files) == \E f \in CertNames : f \in files

\* server.py:64  all(p.exists() for p in [cert_path, key_path, ca_path])
CertsPresent(files) == \A f \in CertNames : f \in files

\* the reuse test left out: every call connects anew
CanReuse_Never(b, h) == FALSE

\* the reuse test without the is_connected() call
CanReuse_NoHealthCheck(b, h) == b # None

\* server.py:45  the reuse test
CanReuse(b, h) == b # None /\ h

\* server.py:41-76  get_bridge up to the point where it returns the stored
\* handle, raises, or suspends in `await bridge.connect()`.  The result
\* holds the new value of the globals, the number of handshakes begun
\* (create_tls + connect), the address the handle was created for and the
\* exception raised, if any.  A handle just created is stored in `bridge`
\* and is not connected.
get_bridge ==
    LET ip == LoadBridgeIP(BRIDGE_IP, ipFile)
        base == [bridge |-> bridge, healthy |-> healthy, BRIDGE_IP |-> BRIDGE_IP,
                 handshakes |-> 0, address |-> <<>>, exc |-> <<>>]
    IN  IF CanReuse(bridge, healthy) THEN base
        ELSE IF ip = <<>> THEN
            [base EXCEPT !.BRIDGE_IP = ip, !.exc = <<MsgNoIP>>]
        ELSE IF ~CertsPresent(certFiles) THEN
            [base EXCEPT !.BRIDGE_IP = ip, !.exc = <<MsgNoCerts>>]
        ELSE
            [bridge |-> bridge + 1,
             healthy |-> FALSE,
             BRIDGE_IP |-> ip,
             handshakes |-> 1,
             address |-> ip,
             exc |-> <<>>]

----------------------------------------------------------------------------
(* Tool invocations *)

ToolNames ==
    {"list_devices", "turn_on", "turn_off", "set_brightness",
     "get_device_state", "list_scenes", "activate_scene"}

ArgKeys == {"device", "scene", "brightness"}

\* The text "Unknown", the default of format_device_info and list_scenes.
UnknownText == <<"U", "n", "k", "n", "o", "w", "n">>

\* server.py format_device_info, for the keys the model's records carry.
format_device_info(device_id, device) ==
    [id   |-> device_id,
     name |-> GetName(device, UnknownText),
     type |-> IF "type" \in device.has THEN device.type ELSE "Unknown"]

\* server.py:335-338  the entry list_scenes shows for a scene
format_scene(scene_id, scene) ==
    [id |-> scene_id, name |-> GetName(scene, UnknownText), type |-> ""]

\* A text result: a format string and what fills it.  `arg` is program text
\* (a search string, a name, an id), `str` a tool name or exception message,
\* `pct` the brightness shown, `items` the records given to json.dumps.
Text(tmpl, arg, str, pct, items) ==
    [tmpl |-> tmpl, arg |-> arg, str |-> str, pct |-> pct, items |-> items]

Plain(tmpl)        == Text(tmpl, <<>>, "", <<>>, <<>>)
WithArg(tmpl, arg) == Text(tmpl, arg, "", <<>>, <<>>)
Json(tmpl, items)  == Text(tmpl, <<>>, "", <<>>, items)

\* What a handler body produces: a returned result or a raised exception,
\* and the hub mutations it issued on the way.
Return(result, calls) == [exc |-> <<>>, result |-> <<result>>, hubCalls |-> calls]
Raise(msg, calls)     == [exc |-> <<msg>>, result |-> <<>>, hubCalls |-> calls]

HubCall(op, id, value) == [op |-> op, id |-> id, value |-> value]

\* server.py:307  max(0, min(100, arguments["brightness"]))
Min2(a, b) == IF a <= b THEN a ELSE b
Max2(a, b) == IF a >= b THEN a ELSE b
\* the clamp without its lower limit
ClampBrightness_NoLower(b) == Min2(100, b)

ClampBrightness(b) == Max2(0, Min2(100, b))

\* server.py:248  device.get("type") in ["SmartBridge", "Unknown"]
Skipped(device) == GetType(device) \in {"SmartBridge", "Unknown"}

RECURSIVE ListDevices(_)
\* server.py:245-250  the loop that builds `result` for list_devices
ListDevices(devices) ==
    IF devices = <<>> THEN <<>>
    ELSE LET e == Head(devices)
         IN  IF Skipped(e.rec) THEN ListDevices(Tail(devices))
             ELSE <<format_device_info(e.id, e.rec)>> \o ListDevices(Tail(devices))

\* server.py:333-338  the loop that builds `result` for list_scenes
ListScenes(scenes) == [i \in 1..Len(scenes) |-> format_scene(scenes[i].id, scenes[i].rec)]

\* arguments[key]: KeyError when the key is absent
MissingArg(arguments, key) == key \notin arguments.keys

MsgKeyError(key) ==
    CASE key = "device" -> "'device'"
      [] key = "scene" -> "'scene'"
      [] OTHER -> "'brightness'"

MsgFetch == "<exception raised by the snapshot fetch>"
MsgHubOp == "<exception raised by the hub operation>"
MsgNotStr == "<AttributeError: search.lower()>"
MsgNotInt == "<TypeError: min(100, brightness)>"

----------------------------------------------------------------------------
(* The handlers of call_tool.  `hub` is what the hub answers during the    *)
(* invocation: its device and scene snapshots, and whether the snapshot    *)
(* fetch and the hub operation return or raise.                            *)

\* server.py:243-258
ListDevicesTool(arguments, hub) ==
    IF ~hub.fetchOK THEN Raise(MsgFetch, <<>>)
    ELSE LET result == ListDevices(hub.devices)
         IN  IF result = <<>>
             THEN Return(Plain("No controllable devices found."), <<>>)
             ELSE Return(Json("json array", result), <<>>)

\* turn_on handing the search string, not the id found, to the hub
TurnOn_RawSearch(arguments, hub) ==
    IF ~hub.fetchOK THEN Raise(MsgFetch, <<>>)
    ELSE IF MissingArg(arguments, "device") THEN Raise(MsgKeyError("device"), <<>>)
    ELSE IF "device" \in arguments.illTyped THEN Raise(MsgNotStr, <<>>)
    ELSE LET found == find_device(hub.devices, arguments.device)
             calls == <<HubCall("turn_on", arguments.device, <<>>)>>
         IN  IF ~found.found
             THEN Return(WithArg("Device not found: {}", arguments.device), <<>>)
             ELSE IF ~hub.opOK THEN Raise(MsgHubOp, calls)
             ELSE Return(WithArg("Turned on: {}", GetName(found.rec, found.id)), calls)

\* server.py:260-276
TurnOn(arguments, hub) ==
    IF ~hub.fetchOK THEN Raise(MsgFetch, <<>>)
    ELSE IF MissingArg(arguments, "device") THEN Raise(MsgKeyError("device"), <<>>)
    ELSE IF "device" \in arguments.illTyped THEN Raise(MsgNotStr, <<>>)
    ELSE LET found == find_device(hub.devices, arguments.device)
             calls == <<HubCall("turn_on", found.id, <<>>)>>
         IN  IF ~found.found
             THEN Return(WithArg("Device not found: {}", arguments.device), <<>>)
             ELSE IF ~hub.opOK THEN Raise(MsgHubOp, calls)
             ELSE Return(WithArg("Turned on: {}", GetName(found.rec, found.id)), calls)

\* server.py:278-294
TurnOff(arguments, hub) ==
    IF ~hub.fetchOK THEN Raise(MsgFetch, <<>>)
    ELSE IF MissingArg(arguments, "device") THEN Raise(MsgKeyError("device"), <<>>)
    ELSE IF "device" \in arguments.illTyped THEN Raise(MsgNotStr, <<>>)
    ELSE LET found == find_device(hub.devices, arguments.device)
             calls == <<HubCall("turn_off", found.id, <<>>)>>
         IN  IF ~found.found
             THEN Return(WithArg("Device not found: {}", arguments.device), <<>>)
             ELSE IF ~hub.opOK THEN Raise(MsgHubOp, calls)
             ELSE Return(WithArg("Turned off: {}", GetName(found.rec, found.id)), calls)

\* server.py:296-313
SetBrightness(arguments, hub) ==
    IF ~hub.fetchOK THEN Raise(MsgFetch, <<>>)
    ELSE IF MissingArg(arguments, "device") THEN Raise(MsgKeyError("device"), <<>>)
    ELSE IF "device" \in arguments.illTyped THEN Raise(MsgNotStr, <<>>)
    ELSE LET found == find_device(hub.devices, arguments.device)
             brightness == ClampBrightness(arguments.brightness)
             calls == <<HubCall("set_value", found.id, <<brightness>>)>>
         IN  IF ~found.found
             THEN Return(WithArg("Device not found: {}", arguments.device), <<>>)
             ELSE IF MissingArg(arguments, "brightness")
             THEN Raise(MsgKeyError("brightness"), <<>>)
             ELSE IF "brightness" \in arguments.illTyped THEN Raise(MsgNotInt, <<>>)
             ELSE IF ~hub.opOK THEN Raise(MsgHubOp, calls)
             ELSE Return(Text("Set {} to {}%", GetName(found.rec, found.id), "",
                              <<brightness>>, <<>>), calls)

\* server.py:315-329
GetDeviceState(arguments, hub) ==
    IF ~hub.fetchOK THEN Raise(MsgFetch, <<>>)
    ELSE IF MissingArg(arguments, "device") THEN Raise(MsgKeyError("device"), <<>>)
    ELSE IF "device" \in arguments.illTyped THEN Raise(MsgNotStr, <<>>)
    ELSE LET found == find_device(hub.devices, arguments.device)
         IN  IF ~found.found
             THEN Return(WithArg("Device not found: {}", arguments.device), <<>>)
             ELSE Return(Json("json object", <<format_device_info(found.id, found.rec)>>), <<>>)

\* server.py:331-346
ListScenesTool(arguments, hub) ==
    IF ~hub.fetchOK THEN Raise(MsgFetch, <<>>)
    ELSE LET result == ListScenes(hub.scenes)
         IN  IF result = <<>>
             THEN Return(Plain("No scenes found."), <<>>)
             ELSE Return(Json("json array", result), <<>>)

\* server.py:348-364
ActivateScene(arguments, hub) ==
    IF ~hub.fetchOK THEN Raise(MsgFetch, <<>>)
    ELSE IF MissingArg(arguments, "scene") THEN Raise(MsgKeyError("scene"), <<>>)
    ELSE IF "scene" \in arguments.illTyped THEN Raise(MsgNotStr, <<>>)
    ELSE LET found == find_scene(hub.scenes, arguments.scene)
             calls == <<HubCall("activate_scene", found.id, <<>>)>>
         IN  IF ~found.found
             THEN Return(WithArg("Scene not found: {}", arguments.scene), <<>>)
             ELSE IF ~hub.opOK THEN Raise(MsgHubOp, calls)
             ELSE Return(WithArg("Activated scene: {}", GetName(found.rec, found.id)), calls)

\* server.py:366-367
UnknownTool(name) == Return(Text("Unknown tool: {}", <<>>, name, <<>>, <<>>), <<>>)

\* server.py:241-367  the body of the try block, given what get_bridge did
TryBody(name, arguments, hub, gb) ==
    IF gb.exc # <<>> THEN Raise(gb.exc[1], <<>>)
    ELSE CASE name = "list_devices"     -> ListDevicesTool(arguments, hub)
           [] name = "turn_on"          -> TurnOn(arguments, hub)
           [] name = "turn_off"         -> TurnOff(arguments, hub)
           [] name = "set_brightness"   -> SetBrightness(arguments, hub)
           [] name = "get_device_state" -> GetDeviceState(arguments, hub)
           [] name = "list_scenes"      -> ListScenesTool(arguments, hub)
           [] name = "activate_scene"   -> ActivateScene(arguments, hub)
           [] OTHER                     -> UnknownTool(name)

\* an except clause that catches RuntimeError only
ExceptClause_Narrow(outcome) ==
    IF outcome.exc # <<>> /\ outcome.exc[1] \in {MsgNoIP, MsgNoCerts}
    THEN [exc |-> <<>>,
          result |-> <<Text("Error: {}", <<>>, outcome.exc[1], <<>>, <<>>)>>,
          hubCalls |-> outcome.hubCalls,
          caught |-> outcome.exc]
    ELSE [exc |-> outcome.exc, result |-> outcome.result,
          hubCalls |-> outcome.hubCalls, caught |-> <<>>]

\* server.py:369-370  except Exception as e: the text returned instead.
\* `caught` keeps the exception the clause caught.
ExceptClause(outcome) ==
    IF outcome.exc # <<>>
    THEN [exc |-> <<>>,
          result |-> <<Text("Error: {}", <<>>, outcome.exc[1], <<>>, <<>>)>>,
          hubCalls |-> outcome.hubCalls,
          caught |-> outcome.exc]
    ELSE [exc |-> <<>>, result |-> outcome.result,
          hubCalls |-> outcome.hubCalls, caught |-> <<>>]

\* server.py call_tool: what the invocation returns to the transport.  An
\* `exc` left in the outcome is an exception that crossed the boundary.
call_tool(name, arguments, hub, gb) == ExceptClause(TryBody(name, arguments, hub, gb))

----------------------------------------------------------------------------
(* Inputs: the invocations the transport delivers and the answers of the hub *)

Args(keys, illTyped, device, scene, brightness) ==
    [keys |-> keys, illTyped |-> illTyped, device |-> device, scene |-> scene,
     brightness |-> brightness]

\* {"device": s, "scene": s, "brightness": b}
FullArgs(s, b) == Args(ArgKeys, {}, s, s, b)

\* {}
NoArgs == Args({}, {}, <<>>, <<>>, 0)

AllNames == ToolNames \cup {"reboot"}

Targeted == {"turn_on", "turn_off", "get_device_state", "activate_scene"}

Inv(name, arguments) == [name |-> name, arguments |-> arguments]

InvocationsOver(searches, levels) ==
    {Inv(n, NoArgs) : n \in AllNames}
    \cup {Inv(n, FullArgs(s, 0)) : n \in Targeted \cup {"reboot"}, s \in searches}
    \cup {Inv("set_brightness", FullArgs(s, b)) : s \in searches, b \in levels}
    \cup {Inv("set_brightness", Args({"device"}, {}, <<"k">>, <<>>, 0)),
          Inv("set_brightness", Args(ArgKeys, {"brightness"}, <<"k">>, <<"k">>, 0))}
    \cup {Inv(n, Args(ArgKeys, {"device", "scene"}, <<>>, <<>>, 0)) : n \in {"turn_on", "activate_scene"}}

Entry(id, has, name, type) ==
    [id |-> id, rec |-> [has |-> has, name |-> name, type |-> type]]

Device(id, name, type) == Entry(id, {"name", "type"}, name, type)

Scene(id, name) == Entry(id, {"name"}, name, "")

\* A bridge, two dimmers whose names share a prefix, and a fan.
DevicesHome ==
    << Device(<<"1">>, <<"B">>, "SmartBridge"),
       Device(<<"2">>, <<"K", "l">>, "WallDimmer"),
       Device(<<"3">>, <<"K", "f">>, "WallDimmer") >>

\* Nothing controllable: the bridge, a device of unknown type, one without a name.
DevicesBare ==
    << Device(<<"1">>, <<"B">>, "SmartBridge"),
       Entry(<<"4">>, {"type"}, <<>>, "Unknown") >>

\* A dimmer and a remote whose record carries no "type" key.
DevicesUntyped ==
    << Device(<<"2">>, <<"K", "l">>, "WallDimmer"),
       Entry(<<"5">>, {"name"}, <<"K", "p">>, "") >>

ScenesHome == << Scene(<<"1">>, <<"K", "l">>), Scene(<<"2">>, <<"f">>) >>

Snapshots ==
    { [devices |-> <<>>, scenes |-> <<>>],
      [devices |-> DevicesHome, scenes |-> ScenesHome],
      [devices |-> DevicesBare, scenes |-> <<>>],
      [devices |-> DevicesUntyped, scenes |-> <<>>] }

HubAnswer(connectOK, fetchOK, opOK, snap) ==
    [connectOK |-> connectOK, fetchOK |-> fetchOK, opOK |-> opOK,
     devices |-> snap.devices, scenes |-> snap.scenes]

\* The invocations of the session specification: every hub operation once,
\* a tool that needs no argument, and a name that is no tool.
CoreInvocations ==
    {Inv(n, FullArgs(<<"k">>, 150)) : n \in {"turn_on", "turn_off", "set_brightness", "activate_scene"}}
    \cup {Inv("list_devices", NoArgs), Inv("reboot", NoArgs)}

HomeSnapshot == [devices |-> DevicesHome, scenes |-> ScenesHome]

\* The answers of a hub whose snapshot does not change.
CoreHubAnswers ==
    {HubAnswer(TRUE, TRUE, TRUE, HomeSnapshot), HubAnswer(TRUE, TRUE, FALSE, HomeSnapshot),
     HubAnswer(TRUE, FALSE, TRUE, HomeSnapshot), HubAnswer(FALSE, TRUE, TRUE, HomeSnapshot)}

\* Every way the hub can answer one invocation: all well, the hub operation
\* failing, the snapshot fetch failing, the connect handshake failing.
HubAnswers == {HubAnswer(TRUE, TRUE, TRUE, snap) : snap \in Snapshots} \cup CoreHubAnswers

\* The answers of the hub to a snapshot fetch alone: the connect handshake
\* and the hub operation are not part of it.
CoreFetchAnswers == {h \in CoreHubAnswers : h.connectOK /\ h.opOK}

FetchAnswers == {h \in HubAnswers : h.connectOK /\ h.opOK}

\* An id, a fragment of two names, and a string that matches nothing.
AllSearches == {<<"2">>, <<"k">>, <<"z">>}

AllLevels == {-5, 0, 37, 100, 150}

AllInvocations == InvocationsOver(AllSearches, AllLevels)

----------------------------------------------------------------------------
(* State and actions.  call_tool is a coroutine: it runs without           *)
(* interruption from one `await` on hub I/O to the next, and other         *)
(* invocations, and the world outside, move only while it is suspended.    *)
(* An action is one such stretch: from the arrival of the invocation to    *)
(* `await bridge.connect()` or, when get_bridge does not suspend, on to    *)
(* the awaited hub operation or the return; from the return of connect()   *)
(* to the awaited hub operation or the return; from the return of the hub  *)
(* operation to the return of call_tool.                                   *)

NoHistory == [calls |-> 0, hs |-> 0, established |-> FALSE]

\* The record of a caller that has sent no invocation yet.
NoCall ==
    [pc |-> "idle", ran |-> FALSE, name |-> "", arguments |-> NoArgs,
     startBridge |-> None, startHealthy |-> FALSE, startEstablished |-> FALSE,
     configOK |-> FALSE,
     afterHubFailure |-> FALSE,
     handshakes |-> 0, connected |-> FALSE, address |-> <<>>,
     mine |-> None, b |-> None, bState |-> "",
     fetched |-> <<>>, hubCalls |-> <<>>, raised |-> <<>>, result |-> <<>>, exc |-> <<>>]

\* The invocation of the first caller: the only one there is when the
\* transport delivers one invocation at a time.  Its record has `ran` set
\* once call_tool has returned.
last == tasks[1]

\* The snapshot the handler of `name` fetches, once it has a session.
Fetched(name, hub, gb) ==
    IF gb.exc # <<>> \/ ~hub.fetchOK \/ name \notin ToolNames THEN <<>>
    ELSE IF name \in {"list_scenes", "activate_scene"} THEN <<hub.scenes>>
    ELSE <<hub.devices>>

\* is_connected() of the stored handle, the connections being cs
StoredConnected(b, cs) == b # None /\ cs[b] = "up"

\* server.py:243-370  where call_tool stands at its next suspension, the
\* try block having gone on from the return of get_bridge and call_tool
\* returning `out` if it ends here: suspended in the hub operation the
\* handler awaits, which it has then issued, or at its end when the
\* handler awaits none.
Proceed(call, fetched, out) ==
    IF out.hubCalls # <<>>
    THEN [call EXCEPT !.pc = "operating",
                      !.fetched = fetched,
                      !.hubCalls = out.hubCalls]
    ELSE [call EXCEPT !.pc = "done", !.ran = TRUE,
                      !.fetched = fetched,
                      !.raised = out.caught,
                      !.result = out.result,
                      !.exc = out.exc]

\* server.py:271-370  call_tool at its end, the awaited hub operation having
\* returned or raised.
Finish(call, out) ==
    [call EXCEPT !.pc = "done", !.ran = TRUE,
                 !.raised = out.caught,
                 !.result = out.result,
                 !.exc = out.exc]

\* What the handler resumes with when its hub operation returns (ok) or
\* raises: the snapshot it fetched before the await.
Resumed(call, ok) ==
    HubAnswer(TRUE, TRUE, ok, [devices |-> call.fetched[1], scenes |-> call.fetched[1]])

\* The history of the stored handle after a step that leaves an invocation
\* as `call`: the run of invocations is counted when call_tool returns.
History(call, established) ==
    IF call.pc # "done" THEN [reuse EXCEPT !.established = established]
    ELSE IF call.startBridge # None /\ call.startHealthy
    THEN [calls |-> Min2(reuse.calls + 1, MaxStreak),
          hs    |-> Min2(reuse.hs + call.handshakes, MaxStreak),
          established |-> established]
    ELSE IF call.handshakes = 1 /\ call.connected
    THEN [calls |-> 1, hs |-> 1, established |-> established]
    ELSE [calls |-> 0, hs |-> 0, established |-> established]

\* What get_bridge hands to the try block: nothing raised, or an exception.
Returned == [exc |-> <<>>]

Raising(msg) == [exc |-> <<msg>>]

\* server.py:237-241, 41-76  an invocation of caller t arrives and call_tool
\* runs to its first suspension.  get_bridge is get_bridge up to the
\* point where it returns, raises or suspends in connect(): in the last
\* case the new handle is already stored in the global and not connected.
\* `answers` are the answers the hub may give to a snapshot fetch made in
\* this stretch.
Start(t, inv, answers) ==
    /\ tasks[t].pc \in {"idle", "done"}
    /\ \E gb \in {get_bridge} :
       \E call \in {[NoCall EXCEPT
                        !.name = inv.name, !.arguments = inv.arguments,
                        !.startBridge = bridge, !.startHealthy = healthy,
                        !.startEstablished = reuse.established,
                        !.configOK = /\ \/ BRIDGE_IP # <<>>
                                        \/ ipFile # <<>> /\ Strip(ipFile[1]) # <<>>
                                     /\ CertNames \subseteq certFiles,
                        !.afterHubFailure = tasks[t].raised \in {<<MsgFetch>>, <<MsgHubOp>>},
                        !.handshakes = gb.handshakes,
                        !.address = gb.address]} :
         /\ BRIDGE_IP' = gb.BRIDGE_IP
         /\ IF gb.handshakes = 1
            THEN /\ gb.bridge <= MaxHandles
                 /\ bridge' = gb.bridge
                 /\ healthy' = gb.healthy
                 /\ conns' = Append(conns, "pending")
                 /\ tasks' = [tasks EXCEPT ![t] =
                                 [call EXCEPT !.pc = "connecting", !.mine = gb.bridge]]
                 /\ reuse' = History(tasks'[t], FALSE)
            ELSE \E hub \in answers :
                 \E out \in {call_tool(inv.name, inv.arguments, hub, gb)} :
                 /\ tasks' = [tasks EXCEPT ![t] =
                                 Proceed(IF gb.exc = <<>>
                                         THEN [call EXCEPT !.connected = TRUE,
                                                           !.b = bridge,
                                                           !.bState = conns[bridge]]
                                         ELSE call,
                                         Fetched(inv.name, hub, gb), out)]
                 /\ reuse' = History(tasks'[t], reuse.established)
                 /\ UNCHANGED <<bridge, healthy, conns>>
    /\ UNCHANGED <<envIP, ipFile, certFiles, rin, rout>>

\* server.py:76-77, 243-370  connect() of the handle caller t created
\* returns (hub.connectOK) or raises.  When it returns, get_bridge returns
\* the global `bridge` as it is now, and call_tool runs to its next
\* suspension; `hub` is also what the hub answers to the snapshot fetch.
Connected(t, hub) ==
    /\ tasks[t].pc = "connecting"
    /\ \E cs \in {[conns EXCEPT ![tasks[t].mine] = IF hub.connectOK THEN "up" ELSE "failed"]} :
       \E gb \in {IF hub.connectOK THEN Returned ELSE Raising(MsgConnect)} :
       \E out \in {call_tool(tasks[t].name, tasks[t].arguments, hub, gb)} :
         /\ conns' = cs
         /\ healthy' = StoredConnected(bridge, cs)
         /\ tasks' = [tasks EXCEPT ![t] =
                         Proceed(IF hub.connectOK
                                 THEN [@ EXCEPT !.connected = TRUE,
                                                !.b = bridge,
                                                !.bState = cs[bridge]]
                                 ELSE @,
                                 Fetched(tasks[t].name, hub, gb), out)]
         /\ reuse' = History(tasks'[t],
                             IF tasks[t].mine = bridge THEN hub.connectOK
                             ELSE reuse.established)
    /\ UNCHANGED <<bridge, BRIDGE_IP, envIP, ipFile, certFiles, rin, rout>>

\* server.py:271-370  the hub operation caller t awaits returns (ok) or
\* raises, and call_tool runs to its end.
Operated(t, ok) ==
    /\ tasks[t].pc = "operating"
    /\ \E out \in {call_tool(tasks[t].name, tasks[t].arguments, Resumed(tasks[t], ok), Returned)} :
         tasks' = [tasks EXCEPT ![t] = Finish(@, out)]
    /\ reuse' = History(tasks'[t], reuse.established)
    /\ UNCHANGED <<bridge, healthy, BRIDGE_IP, envIP, ipFile, certFiles, rin, rout, conns>>

\* An invocation arrives.
CallTool(t, inv, answers) == Start(t, inv, answers) /\ UNCHANGED attempt

\* connect() returns or raises.
ConnectReturns(t, hub) == Connected(t, hub) /\ UNCHANGED attempt

\* The awaited hub operation returns or raises.
HubOpReturns(t, ok) == Operated(t, ok) /\ UNCHANGED attempt

\* The link of a connected handle drops: its is_connected() answers False
\* from now on.
DropConnection ==
    /\ \E h \in 1..Len(conns) :
         /\ conns[h] = "up"
         /\ conns' = [conns EXCEPT ![h] = "down"]
    /\ healthy' = StoredConnected(bridge, conns')
    /\ UNCHANGED <<bridge, BRIDGE_IP, envIP, ipFile, certFiles, reuse, rin, rout, attempt, tasks>>

\* The addresses pair_bridge.py is run with: one of four parts, and one
\* that main turns down.
PairAddresses == {<<"1", ".", "1", ".", "1", ".", "1">>, <<"1">>}

\* pair_bridge.py:93-94  len(bridge_ip.split("."))
RECURSIVE Parts(_)
Parts(s) ==
    IF s = <<>> THEN 1
    ELSE (IF Head(s) = "." THEN 1 ELSE 0) + Parts(Tail(s))

\* pair_bridge.py:93-97, 47-62  pair_bridge.py is run with an address of
\* four parts (main exits with status 1 on any other, writing nothing) and
\* the pairing succeeds: the three credential files and bridge_ip.txt are
\* written.
Pair(bridge_ip) ==
    /\ Parts(bridge_ip) = 4
    /\ certFiles' = CertNames
    /\ ipFile' = <<bridge_ip>>
    /\ UNCHANGED <<bridge, healthy, BRIDGE_IP, envIP, reuse, rin, rout, attempt, conns, tasks>>

\* What an editor leaves in bridge_ip.txt: an address with a line end, or
\* nothing but a line end.
EditedAddresses == {<<"2", "\r", "\n">>, <<"\n">>}

\* bridge_ip.txt is rewritten by hand.
WriteIPFile(content) ==
    /\ ipFile' = <<content>>
    /\ UNCHANGED <<bridge, healthy, BRIDGE_IP, envIP, certFiles, reuse, rin, rout, attempt, conns, tasks>>

\* A file of CERT_DIR is deleted.
RemoveFile(f) ==
    /\ \/ f \in certFiles /\ certFiles' = certFiles \ {f} /\ ipFile' = ipFile
       \/ f = "bridge_ip.txt" /\ ipFile # <<>> /\ ipFile' = <<>> /\ certFiles' = certFiles
    /\ UNCHANGED <<bridge, healthy, BRIDGE_IP, envIP, reuse, rin, rout, attempt, conns, tasks>>

Environment ==
    \/ DropConnection
    \/ \E ip \in PairAddresses : Pair(ip)
    \/ \E c \in EditedAddresses : WriteIPFile(c)
    \/ \E f \in CertNames \cup {"bridge_ip.txt"} : RemoveFile(f)

EnvOverrides == {<<>>, <<"9">>}

NoResolve == [snapshot |-> <<>>, search |-> <<>>]

NoAttempt ==
    [ran |-> FALSE, fileAddress |-> <<>>, certsPresent |-> FALSE,
     afterFailure |-> FALSE, hubAccepts |-> FALSE]

\* The callers that may have an invocation in flight at the same time.
Callers == 1..MaxCallers

\* No invocation has arrived and no handle was created.
Quiet ==
    /\ attempt = NoAttempt
    /\ conns = <<>>
    /\ tasks = [t \in Callers |-> NoCall]
    /\ reuse = NoHistory

----------------------------------------------------------------------------
(* The session specification: one caller, whose next invocation arrives    *)
(* after the result of the one before, while the connection and the files  *)
(* of CERT_DIR change at any time.                                         *)

\* server.py:33-38  the module as loaded, before any pairing
Init ==
    /\ bridge = None
    /\ healthy = FALSE
    /\ envIP \in EnvOverrides
    /\ BRIDGE_IP = envIP
    /\ ipFile = <<>>
    /\ certFiles = {}
    /\ rin = NoResolve
    /\ rout = <<>>
    /\ Quiet

Next ==
    \/ \E inv \in CoreInvocations : CallTool(1, inv, CoreFetchAnswers)
    \/ \E hub \in CoreHubAnswers : ConnectReturns(1, hub)
    \/ \E ok \in BOOLEAN : HubOpReturns(1, ok)
    \/ Environment

Spec == Init /\ [][Next]_vars

----------------------------------------------------------------------------
(* The dispatcher specification: a process started either before or after  *)
(* pairing, one caller sending every tool name with every shape of         *)
(* arguments, every answer of the hub.                                     *)

InitDispatch ==
    /\ bridge = None
    /\ healthy = FALSE
    /\ envIP \in EnvOverrides
    /\ BRIDGE_IP = envIP
    /\ \E paired \in BOOLEAN :
          /\ ipFile = IF paired THEN <<<<"1", ".", "1", ".", "1", ".", "1">>>> ELSE <<>>
          /\ certFiles = IF paired THEN CertNames ELSE {}
    /\ rin = NoResolve
    /\ rout = <<>>
    /\ Quiet

NextDispatch ==
    \/ \E inv \in AllInvocations : CallTool(1, inv, FetchAnswers)
    \/ \E hub \in HubAnswers : ConnectReturns(1, hub)
    \/ \E ok \in BOOLEAN : HubOpReturns(1, ok)
    \/ DropConnection

SpecDispatch == InitDispatch /\ [][NextDispatch]_vars

----------------------------------------------------------------------------
(* The resolver specification: find_device and find_scene applied to every *)
(* snapshot of at most MaxEntries entries and every search string below.   *)

ResolverIds == {<<"1">>, <<"k">>, <<"K", "l">>}

ResolverRecords ==
    {[has |-> {"name"}, name |-> n, type |-> ""] :
        n \in {<<"k">>, <<"K">>, <<"K", "l">>, <<"K", "f">>, <<"1">>}}
    \cup {[has |-> {}, name |-> <<>>, type |-> ""]}

ResolverSearches == {<<>>, <<"k">>, <<"K">>, <<"K", "L">>, <<"l">>, <<"1">>, <<"z">>}

\* dict keys are unique
DistinctIds(snapshot) ==
    \A i, j \in 1..Len(snapshot) : i # j => snapshot[i].id # snapshot[j].id

ResolverSnapshots ==
    UNION {{snap \in [1..n -> [id : ResolverIds, rec : ResolverRecords]] : DistinctIds(snap)} :
              n \in 0..MaxEntries}

InitResolve ==
    /\ bridge = None
    /\ healthy = FALSE
    /\ envIP = <<>>
    /\ BRIDGE_IP = envIP
    /\ ipFile = <<>>
    /\ certFiles = {}
    /\ rin \in [snapshot : ResolverSnapshots, search : ResolverSearches]
    /\ rout = <<>>
    /\ Quiet

\* Both resolvers are applied to the input.
Resolve ==
    /\ rout = <<>>
    /\ rout' = <<[device |-> find_device(rin.snapshot, rin.search),
                  scene  |-> find_scene(rin.snapshot, rin.search)]>>
    /\ UNCHANGED <<bridge, healthy, BRIDGE_IP, envIP, ipFile, certFiles, reuse, rin, attempt, conns, tasks>>

NextResolve == Resolve

SpecResolve == InitResolve /\ [][NextResolve]_vars

----------------------------------------------------------------------------
(* The address specification: the session specification with the hub       *)
(* answering only at its own addresses, and a record of what the address   *)
(* sources, the credential files and the hub were during each invocation.  *)

\* The addresses at which the hub answers: the one pairing writes to
\* bridge_ip.txt and the one LUTRON_BRIDGE_IP names.
HubAddresses == {a \in PairAddresses : Parts(a) = 4} \cup (EnvOverrides \ {<<>>})

\* server.py:69-76  create_tls(hostname=BRIDGE_IP) and connect(): the
\* handshake reaches the hub only when the address dialled is one of its own.
Reached(address, hub) == [hub EXCEPT !.connectOK = @ /\ address \in HubAddresses]

\* An invocation arrives; `attempt` records the sources as they are now,
\* and whether the hub answered well what this stretch asked of it.
Attempt(t, inv, answers) ==
    /\ Start(t, inv, answers)
    /\ attempt' = [ran |-> TRUE,
                   fileAddress |-> IF ipFile = <<>> THEN <<>> ELSE Strip(ipFile[1]),
                   certsPresent |-> CertNames \subseteq certFiles,
                   afterFailure |-> tasks[t].raised # <<>>,
                   hubAccepts |-> tasks'[t].raised # <<MsgFetch>>]

\* connect() returns or raises, at the address dialled.
AttemptConnects(t, hub) ==
    /\ Connected(t, Reached(tasks[t].address, hub))
    /\ attempt' = [attempt EXCEPT !.hubAccepts = @ /\ hub.connectOK /\ hub.fetchOK]

\* The awaited hub operation returns or raises.
AttemptOperates(t, ok) ==
    /\ Operated(t, ok)
    /\ attempt' = [attempt EXCEPT !.hubAccepts = @ /\ ok]

SourceInvocations == {Inv("list_devices", NoArgs), Inv("turn_on", FullArgs(<<"k">>, 0))}

InitSources == Init

NextSources ==
    \/ \E inv \in SourceInvocations : Attempt(1, inv, CoreFetchAnswers)
    \/ \E hub \in CoreHubAnswers : AttemptConnects(1, hub)
    \/ \E ok \in BOOLEAN : AttemptOperates(1, ok)
    \/ Environment

SpecSources == InitSources /\ [][NextSources]_vars

----------------------------------------------------------------------------
(* The interleaved specification: up to MaxCallers callers, each sending   *)
(* its next invocation after the result of its last, so that up to         *)
(* MaxCallers invocations of call_tool are in flight in one event loop.    *)

\* The result of caller t has gone back and its record is dropped.
Respond(t) ==
    /\ tasks[t].pc = "done"
    /\ tasks' = [tasks EXCEPT ![t] = NoCall]
    /\ UNCHANGED <<bridge, healthy, BRIDGE_IP, envIP, ipFile, certFiles, reuse, rin, rout,
                   attempt, conns>>

InitInterleaved == InitDispatch

NextInterleaved ==
    \/ \E t \in Callers, inv \in SourceInvocations : CallTool(t, inv, CoreFetchAnswers)
    \/ \E t \in Callers, hub \in CoreHubAnswers : ConnectReturns(t, hub)
    \/ \E t \in Callers, ok \in BOOLEAN : HubOpReturns(t, ok)
    \/ \E t \in Callers : Respond(t)
    \/ DropConnection

SpecInterleaved == InitInterleaved /\ [][NextInterleaved]_vars
----------------------------------------------------------------------------
(* Properties of the session                                               *)

\* The invocation recorded in `last` started with a stored session.
StartedWithSession == last.ran /\ last.startBridge # None

\* The invocation recorded in `last` took the reuse path of get_bridge.
Reused == last.ran /\ last.connected /\ last.handshakes = 0

\* C1  Session reuse: an invocation that starts with a stored session whose
\* connection reports healthy performs no handshake and leaves the stored
\* handle in place; a run of invocations made of one successful handshake
\* and the healthy-start invocations after it holds exactly one handshake.
ThmC1_SessionReuse ==
    /\ (StartedWithSession /\ last.startHealthy) =>
            /\ last.handshakes = 0
            /\ last.connected
            /\ bridge = last.startBridge
    /\ reuse.calls >= 1 => reuse.hs = 1

\* Two consecutive invocations, the first connecting and the second finding
\* the connection healthy.
WitC1_SecondCallReuses ==
    /\ StartedWithSession /\ last.startHealthy
    /\ reuse.calls >= 2
    /\ reuse.hs = 1
    /\ last.handshakes = 0

\* C2 as claimed: an invocation that starts with a stored session, once
\* connected, whose connection reports unhealthy performs exactly one
\* handshake attempt.
OrigC2_ExactlyOneHandshake ==
    (StartedWithSession /\ last.startEstablished /\ ~last.startHealthy) => last.handshakes = 1

\* C2 as amended: an invocation that starts with a stored session whose
\* connection reports unhealthy performs exactly one handshake attempt when
\* the configuration resolves (an address is known and the three credential
\* files are present) and none when it does not; when the handshake
\* succeeds the stored session is the newly created handle.
ThmC2_SessionReplacement ==
    (StartedWithSession /\ ~last.startHealthy) =>
        /\ last.handshakes = (IF last.configOK THEN 1 ELSE 0)
        /\ (last.handshakes = 1 /\ last.connected) =>
                /\ bridge # last.startBridge
                /\ bridge = last.startBridge + 1
        /\ ~last.configOK => ~last.connected /\ bridge = last.startBridge

\* A stored session found unhealthy and replaced by a newly connected handle.
WitC2_Replaced ==
    /\ StartedWithSession /\ last.startEstablished /\ ~last.startHealthy
    /\ last.configOK
    /\ last.handshakes = 1
    /\ last.connected
    /\ bridge = last.startBridge + 1
    /\ healthy

\* C3  After an invocation whose connect handshake failed, the session cell
\* holds what it held before the invocation.
OrigC3_FailedHandleNotCached ==
    (last.ran /\ last.handshakes = 1 /\ ~last.connected) => bridge = last.startBridge

\* C4  After an invocation in which the snapshot fetch or a hub operation
\* failed on an established session, the next invocation does not reuse the
\* stored handle.
OrigC4_FailureDiscardsSession ==
    (last.ran /\ last.afterHubFailure) => ~Reused

----------------------------------------------------------------------------
(* Properties of the dispatcher                                            *)

ErrorText(msg) == Text("Error: {}", <<>>, msg, <<>>, <<>>)

\* C5  Error containment: every invocation ends with exactly one text
\* result and no exception crossing call_tool; when a stage of the handler
\* raised, the result is "Error: <message>" with that exception's message.
ThmC5_ErrorContainment ==
    last.ran =>
        /\ last.exc = <<>>
        /\ Len(last.result) = 1
        /\ last.raised # <<>> => last.result = <<ErrorText(last.raised[1])>>
        /\ last.raised = <<>> => last.result[1].tmpl # "Error: {}"

\* The hub operation of turn_on failed and the caller got the error text.
WitC5_HubFailureContained ==
    /\ last.ran
    /\ last.name = "turn_on"
    /\ last.raised = <<MsgHubOp>>
    /\ Len(last.hubCalls) = 1
    /\ last.result = <<ErrorText(MsgHubOp)>>
    /\ last.exc = <<>>

\* The name of an entry as the resolvers read it: empty when absent.
EntryName(e) == IF "name" \in e.rec.has THEN e.rec.name ELSE <<>>

\* The entries of a snapshot that match a search string in each tier.
Tier1(snapshot, search) == {i \in 1..Len(snapshot) : snapshot[i].id = search}

Tier2(snapshot, search) ==
    {i \in 1..Len(snapshot) : Lower(EntryName(snapshot[i])) = Lower(search)}

Tier3(snapshot, search) ==
    {i \in 1..Len(snapshot) : Contains(Lower(search), Lower(EntryName(snapshot[i])))}

NoMatch(snapshot, search) ==
    Tier1(snapshot, search) \cup Tier2(snapshot, search) \cup Tier3(snapshot, search) = {}

Mutating == {"turn_on", "turn_off", "set_brightness", "activate_scene"}

TargetKey(name) == IF name = "activate_scene" THEN "scene" ELSE "device"

\* The search string of the invocation recorded in `last`.
TargetOf(call) == IF call.name = "activate_scene" THEN call.arguments.scene ELSE call.arguments.device

\* The invocation recorded in `last` fetched a snapshot and named its target
\* with a string.
Resolving ==
    /\ last.ran
    /\ last.fetched # <<>>
    /\ TargetKey(last.name) \in last.arguments.keys \ last.arguments.illTyped

\* C6  Not-found shape: when no entry of the snapshot fetched by a turn_on,
\* turn_off, set_brightness or activate_scene invocation matches the search
\* string, the result is "Device not found: <search>" ("Scene not found:
\* <search>" for activate_scene) and no hub mutation is issued.
ThmC6_NotFoundShape ==
    (Resolving /\ last.name \in Mutating /\ NoMatch(last.fetched[1], TargetOf(last))) =>
        /\ last.result =
             <<WithArg(IF last.name = "activate_scene"
                       THEN "Scene not found: {}" ELSE "Device not found: {}",
                       TargetOf(last))>>
        /\ last.hubCalls = <<>>
        /\ last.raised = <<>>

\* turn_on of a string that matches nothing in a snapshot that has entries.
WitC6_NotFound ==
    /\ Resolving
    /\ last.name = "turn_on"
    /\ last.fetched[1] # <<>>
    /\ NoMatch(last.fetched[1], last.arguments.device)
    /\ last.result = <<WithArg("Device not found: {}", last.arguments.device)>>

\* min(100, max(0, b))
Clamped(b) == IF b < 0 THEN 0 ELSE IF b > 100 THEN 100 ELSE b

\* The invocation recorded in `last` is a set_brightness with an integer
\* brightness whose device resolves.
SettingBrightness ==
    /\ Resolving
    /\ last.name = "set_brightness"
    /\ "brightness" \in last.arguments.keys \ last.arguments.illTyped
    /\ ~NoMatch(last.fetched[1], last.arguments.device)

\* C7  Clamping: set_brightness of a resolvable device issues exactly one
\* set_value call, whose value is min(100, max(0, b)) and lies in 0..100;
\* the call is never refused for its brightness, and the text returned shows
\* the clamped value.
ThmC7_Clamping ==
    SettingBrightness =>
        /\ Len(last.hubCalls) = 1
        /\ last.hubCalls[1].op = "set_value"
        /\ last.hubCalls[1].value = <<Clamped(last.arguments.brightness)>>
        /\ last.hubCalls[1].value[1] \in 0..100
        /\ last.raised \in {<<>>, <<MsgHubOp>>}
        /\ last.raised = <<>> =>
              /\ last.result[1].tmpl = "Set {} to {}%"
              /\ last.result[1].pct = <<Clamped(last.arguments.brightness)>>

\* A brightness of -5 sent to the hub as 0 and reported as 0.
WitC7_ClampedBelow ==
    /\ SettingBrightness
    /\ last.arguments.brightness = -5
    /\ last.hubCalls[1].value = <<0>>
    /\ last.raised = <<>>
    /\ last.result[1].pct = <<0>>

\* C10  A tool name outside the seven supported names yields the result
\* "Unknown tool: <name>" in every state of the session and configuration,
\* with no hub operation and no handshake.
OrigC10_UnknownTool ==
    (last.ran /\ last.name \notin ToolNames) =>
        /\ last.result = <<Text("Unknown tool: {}", <<>>, last.name, <<>>, <<>>)>>
        /\ last.handshakes = 0
        /\ last.hubCalls = <<>>

----------------------------------------------------------------------------
(* Properties of the resolvers                                             *)

\* The entry a resolver result names, as a position of the snapshot; 0 for
\* no match.
PositionOf(snapshot, r) ==
    IF r.found /\ \E i \in 1..Len(snapshot) : snapshot[i].id = r.id /\ snapshot[i].rec = r.rec
    THEN CHOOSE i \in 1..Len(snapshot) : snapshot[i].id = r.id /\ snapshot[i].rec = r.rec
    ELSE 0

\* The lowest tier in which the input of the resolver run has a match.
LowestTier ==
    IF Tier1(rin.snapshot, rin.search) # {} THEN Tier1(rin.snapshot, rin.search)
    ELSE IF Tier2(rin.snapshot, rin.search) # {} THEN Tier2(rin.snapshot, rin.search)
    ELSE Tier3(rin.snapshot, rin.search)

\* C8  Tier precedence: find_device returns an entry of the lowest-numbered
\* tier that has a match (id, then equal name, then name containing the
\* search string, names compared in lower case), and no match only when no
\* tier has one.
ThmC8_TierPrecedence ==
    rout # <<>> =>
        LET r == rout[1].device
        IN  IF LowestTier = {} THEN r = NotFound
            ELSE r.found /\ PositionOf(rin.snapshot, r) \in LowestTier

\* The search string is the id of the second entry and the name of the
\* first: the second entry is returned.
WitC8_IdBeatsName ==
    /\ rout # <<>>
    /\ Len(rin.snapshot) = 2
    /\ Tier1(rin.snapshot, rin.search) = {2}
    /\ Tier2(rin.snapshot, rin.search) = {1}
    /\ rout[1].device.id = rin.snapshot[2].id

Least(S) == CHOOSE i \in S : \A j \in S : i <= j

\* C9  First-in-order tie-break: when no id matches, find_device and
\* find_scene return the first entry, in snapshot order, of the lowest tier
\* that has a match.
ThmC9_FirstInOrder ==
    (rout # <<>> /\ Tier1(rin.snapshot, rin.search) = {} /\ LowestTier # {}) =>
        /\ PositionOf(rin.snapshot, rout[1].device) = Least(LowestTier)
        /\ PositionOf(rin.snapshot, rout[1].scene) = Least(LowestTier)

\* Two entries whose names contain the search string, neither equal to it:
\* the first is returned.
WitC9_FirstOfTwo ==
    /\ rout # <<>>
    /\ Tier1(rin.snapshot, rin.search) = {}
    /\ Tier2(rin.snapshot, rin.search) = {}
    /\ Cardinality(Tier3(rin.snapshot, rin.search)) >= 2
    /\ rin.search # <<>>
    /\ rout[1].device.id = rin.snapshot[1].id
    /\ rout[1].scene.id = rin.snapshot[1].id

----------------------------------------------------------------------------
(* Properties of the configuration                                         *)

\* The invocation recorded in `last` went past the reuse test of get_bridge.
PastReuse == last.ran /\ ~(last.startBridge # None /\ last.startHealthy)

ConfigErrors == {<<MsgNoIP>>, <<MsgNoCerts>>}

\* C11 as claimed: a handshake is started only when the address is non-empty
\* and the three credential files are present in that call; whenever the
\* address or a credential file is missing, get_bridge raises a
\* configuration error, performs no handshake and leaves the stored handle.
OrigC11_GateOnEveryCall ==
    last.ran =>
        /\ last.handshakes = 1 => last.configOK
        /\ ~last.configOK =>
              /\ last.handshakes = 0
              /\ last.raised \in ConfigErrors
              /\ bridge = last.startBridge

\* C11 as amended: a handshake is started only when the address is
\* non-empty and the three credential files are present in that call; a call
\* of get_bridge that goes past the reuse test with the address or a
\* credential file missing raises a configuration error, performs no
\* handshake and leaves the stored handle; a call that reuses a healthy
\* session looks at neither and returns the session.
ThmC11_CredentialGate ==
    last.ran =>
        /\ last.handshakes = 1 => last.configOK
        /\ (PastReuse /\ ~last.configOK) =>
              /\ last.handshakes = 0
              /\ last.raised \in ConfigErrors
              /\ bridge = last.startBridge
        /\ ~PastReuse => last.handshakes = 0 /\ last.connected

\* A session was stored, its connection dropped and a credential file was
\* removed: the call raises the credentials error and the handle stays.
WitC11_GateShut ==
    /\ PastReuse
    /\ last.startBridge # None
    /\ ~last.configOK
    /\ last.raised = <<MsgNoCerts>>
    /\ last.handshakes = 0
    /\ bridge = last.startBridge

----------------------------------------------------------------------------
(* Properties of the listing                                               *)

\* The invocation recorded in `last` is a list_devices that fetched its
\* snapshot and returned.
Listing ==
    /\ last.ran /\ last.name = "list_devices"
    /\ last.fetched # <<>> /\ last.result # <<>>

\* The type an entry of the snapshot carries, if it carries one.
TypeSentinels == {"SmartBridge", "Unknown"}

CarriesSentinel(e) == "type" \in e.rec.has /\ e.rec.type \in TypeSentinels

\* The ids of the entries the claim says are listed, in snapshot order.
RECURSIVE ListedIds(_)
ListedIds(devices) ==
    IF devices = <<>> THEN <<>>
    ELSE IF CarriesSentinel(Head(devices)) THEN ListedIds(Tail(devices))
    ELSE <<Head(devices).id>> \o ListedIds(Tail(devices))

\* C12 as claimed: list_devices shows exactly the entries whose type is
\* neither "SmartBridge" nor "Unknown", in snapshot order; when none remains
\* it returns "No controllable devices found." and never an empty array; no
\* entry shown carries the type "Unknown".
OrigC12_ListingFilter ==
    Listing =>
        LET expected == ListedIds(last.fetched[1])
            shown == last.result[1].items
        IN  /\ [i \in 1..Len(shown) |-> shown[i].id] = expected
            /\ IF expected = <<>>
               THEN last.result[1] = Plain("No controllable devices found.")
               ELSE last.result[1].tmpl = "json array"
            /\ \A i \in 1..Len(shown) : shown[i].type # "Unknown"

----------------------------------------------------------------------------
(* Properties of the address sources                                       *)

\* The address the sources designate when the invocation recorded in
\* `attempt` started: the environment override when set, otherwise the
\* stripped content of bridge_ip.txt as it then was, <<>> when neither.
SourceAddress == IF envIP # <<>> THEN envIP ELSE attempt.fileAddress

\* C13 as claimed: a call of get_bridge that goes past the reuse test uses
\* the environment override when one is set, otherwise the content of
\* bridge_ip.txt as it is at that call, and raises the address error when
\* neither is available, whatever happened to the file between calls.
OrigC13_AddressSourceOrder ==
    (attempt.ran /\ PastReuse) =>
        IF SourceAddress = <<>>
        THEN last.handshakes = 0 /\ last.raised = <<MsgNoIP>>
        ELSE /\ last.raised # <<MsgNoIP>>
             /\ last.handshakes = 1 => last.address = SourceAddress

\* The configuration is valid: the three credential files are present and
\* the sources designate an address of the hub.
ConfigValid == attempt.certsPresent /\ SourceAddress \in HubAddresses

\* C17 as claimed: an invocation that follows a failed one, made when the
\* configuration is valid and the hub accepts connections and operations,
\* performs a handshake and completes without an error.
OrigC17_Recovery ==
    (last.ran /\ attempt.afterFailure /\ ConfigValid /\ attempt.hubAccepts) =>
        /\ last.handshakes = 1
        /\ last.raised = <<>>
        /\ last.result # <<>>

\* The same with the invocations that reuse a healthy session left aside:
\* it fails too, on an address read from bridge_ip.txt before the file was
\* rewritten.
RecoveryPastReuse ==
    (attempt.afterFailure /\ ConfigValid /\ attempt.hubAccepts /\ PastReuse) =>
        /\ last.handshakes = 1
        /\ last.raised = <<>>

----------------------------------------------------------------------------
(* Properties of the resolvers, continued                                  *)

\* The resolver returned an entry that has no "name" key.
Nameless(r) == r.found /\ "name" \notin r.rec.has

\* C16 as claimed: for every snapshot and every search string, the empty
\* one included, an entry without a name is returned only when the search
\* string equals its id.
OrigC16_NamelessOnlyById ==
    rout # <<>> =>
        /\ Nameless(rout[1].device) => rin.search = rout[1].device.id
        /\ Nameless(rout[1].scene) => rin.search = rout[1].scene.id

\* C16 as amended: for every snapshot and every search string that is not
\* empty, an entry without a name is returned only when the search string
\* equals its id.
ThmC16_NamelessOnlyById ==
    (rout # <<>> /\ rin.search # <<>>) =>
        /\ Nameless(rout[1].device) => rin.search = rout[1].device.id
        /\ Nameless(rout[1].scene) => rin.search = rout[1].scene.id

\* A snapshot of a nameless entry and a named one, searched by the id of
\* the nameless one: it is returned.
WitC16_NamelessById ==
    /\ rout # <<>>
    /\ rin.search # <<>>
    /\ Len(rin.snapshot) = 2
    /\ Nameless(rout[1].device)
    /\ rout[1].device.id = rin.search
    /\ "name" \in rin.snapshot[1].rec.has

\* C18  Device and scene resolution are the same function: on every
\* snapshot and search string find_device and find_scene return the same
\* id and record, or both return no match.
ThmC18_SameResolver ==
    rout # <<>> => rout[1].device = rout[1].scene

\* A search string that is no id and no name but part of a name: both
\* resolvers return that entry.
WitC18_BothPartial ==
    /\ rout # <<>>
    /\ Tier1(rin.snapshot, rin.search) = {}
    /\ Tier2(rin.snapshot, rin.search) = {}
    /\ Tier3(rin.snapshot, rin.search) # {}
    /\ rin.search # <<>>
    /\ rout[1].device.found
    /\ rout[1].scene = rout[1].device

----------------------------------------------------------------------------
(* Properties of the hub mutations                                         *)

\* The hub operation each mutating tool issues.
OpOf(name) ==
    CASE name = "turn_on" -> "turn_on"
      [] name = "turn_off" -> "turn_off"
      [] name = "set_brightness" -> "set_value"
      [] OTHER -> "activate_scene"

\* The keys of a snapshot.
Keys(snapshot) == {snapshot[i].id : i \in 1..Len(snapshot)}

\* C19  Every hub mutation is aimed at a resolved target of the same
\* invocation: an invocation issues at most one hub mutation; it issues one
\* only as a mutating tool, after get_bridge returned a session and the
\* snapshot was fetched in that invocation; the operation is the one of the
\* tool and the id passed is a key of the snapshot fetched (devices for
\* turn_on, turn_off and set_brightness, scenes for activate_scene).
ThmC19_MutationAimedAtTarget ==
    last.ran =>
        /\ Len(last.hubCalls) <= 1
        /\ last.hubCalls # <<>> =>
              /\ last.name \in Mutating
              /\ last.connected
              /\ last.fetched # <<>>
              /\ last.hubCalls[1].op = OpOf(last.name)
              /\ last.hubCalls[1].id \in Keys(last.fetched[1])

\* turn_on with a search string that is part of a name and no key: the hub
\* is handed the key of the entry found, not the search string.
WitC19_KeyNotSearch ==
    /\ last.ran /\ last.name = "turn_on"
    /\ Len(last.hubCalls) = 1
    /\ TargetOf(last) \notin Keys(last.fetched[1])
    /\ last.hubCalls[1].id \in Keys(last.fetched[1])
    /\ last.raised = <<>>

----------------------------------------------------------------------------
(* Properties of interleaved invocations                                   *)

\* The handles whose connect handshake is in progress.
Pending == {h \in 1..Len(conns) : conns[h] = "pending"}

\* The handles that are connecting or connected.
Live == {h \in 1..Len(conns) : conns[h] \in {"pending", "up"}}

\* C14 as claimed: with invocations interleaving at their suspension points,
\* at most one handshake is in progress and at most one session exists at
\* any time; an invocation that starts while a handshake is pending starts
\* no second one.
OrigC14_SingleFlight ==
    /\ Cardinality(Pending) <= 1
    /\ Cardinality(Live) <= 1

\* C15 as claimed: under every interleaving, the handle get_bridge returned
\* to an invocation was, when it was returned, one whose connect handshake
\* had completed successfully.
OrigC15_ReturnedConnected ==
    \A t \in Callers : tasks[t].b # None => tasks[t].bState = "up"

=============================================================================
